---- MODULE Spec2Model ----
(***************************************************************************)
(* Model of the health-check listener of src/src/healthcheck.cpp:          *)
(* CHealthCheckSocket (the facade: Init, Listen, Close, the destructor's   *)
(* AcceptThread.Stop()) and CHealthCheckSocket::CHealthCheckThread (the    *)
(* accept worker: run(), Stop()).                                          *)
(*                                                                         *)
(* Two threads are interleaved: the facade thread (Listen, Stop) and the   *)
(* worker thread (run).  The kernel side is modelled by a descriptor table *)
(* (fdTable), the peers' half of every connection (peer, unread) and the   *)
(* state of the listening socket (lstate).  A pool entry is the descriptor *)
(* number the vector holds, tagged with the arrival sequence number of the *)
(* accept that pushed it (seq is history, the program only sees fd).       *)
(***************************************************************************)
EXTENDS Integers, Sequences, FiniteSets, TLC

\* Largest value of MAX_NUM_HEALTH_CONNECTIONS that is explored (global.h,
\* which sets it, is not part of the sources: every value 1..MaxCapacity is).
MaxCapacity == 2
\* Connections that ever arrive: enough to overflow the largest pool.
MaxConns == MaxCapacity + 1
\* Descriptor numbers the kernel hands out for accepted connections.
NumFds == MaxConns
\* Bytes a peer may have sent that nobody has read.
MaxUnread == 1
\* Calls of Stop() (the destructor makes one; idempotence needs two).
MaxStops == 2

FDs == 1..NumFds
Conns == 1..MaxConns

VARIABLES
    MAX_NUM_HEALTH_CONNECTIONS, \* the capacity constant of this build
    lstate,      \* TcpSocket: "Unbound", "Bound", "Listening", "Closed"
    listened,    \* start-up: "no", "ok", "failed" (the constructor or
                 \* Listen() threw to its caller)
    pSocket,     \* CHealthCheckThread::pSocket: "null" or "this"
    bRun,        \* CHealthCheckThread::bRun
    pcW,         \* position of the worker thread in run()
    pcF,         \* position of the facade thread in Stop()
    stops,       \* completed calls of Stop()
    pool,        \* ConnectionSockets: sequence of [fd, seq]
    fdTable,     \* kernel: descriptor -> connection it refers to (0: free)
    peer,        \* peer's side of connection c: "none", "open", "closed",
                 \* "reset"; "gone" once the local side has closed c
    unread,      \* bytes the peer sent on c that are still unread
    nclose,      \* history: CloseSocket calls made with the value of entry seq
    nAccepted,   \* connections accept() has returned so far
    errors,      \* CGenErr exceptions thrown inside run()
    tk           \* history of the current (or last) tick of run()

vars == <<MAX_NUM_HEALTH_CONNECTIONS, lstate, listened, pSocket, bRun, pcW, pcF,
          stops, pool, fdTable, peer, unread, nclose, nAccepted, errors, tk>>

\* tk: res is what accept() did in this tick ("none" before it ran), new the
\* arrival number it returned, full whether the pool held the capacity when it
\* succeeded, done how many of the three steps have completed, pruned the
\* entries the prune step removed, eof those of them whose peek had returned
\* zero length, rem the entry the capacity step removed and
\* cls the entry whose value the capacity step handed to CloseSocket.
NoTick == [res |-> "none", new |-> 0, full |-> FALSE, done |-> 0,
           pruned |-> {}, eof |-> {}, rem |-> 0, cls |-> 0]

(***************************************************************************)
(* Helpers on the pool and the kernel state                                *)
(***************************************************************************)
Seqs(p) == {p[i].seq : i \in DOMAIN p}

\* std::vector::erase(position): the later entries move down one slot.
Erase(p, i) == [j \in 1..(Len(p) - 1) |-> IF j < i THEN p[j] ELSE p[j + 1]]

\* The descriptor accept() allocates: the lowest-numbered one that is free.
LowestFree(ft) == CHOOSE f \in FDs : ft[f] = 0 /\ \A g \in FDs : g < f => ft[g] # 0

\* Local side of connection c: open while a descriptor refers to it.
Local(c) ==
    IF c > nAccepted THEN "none"
    ELSE IF \E f \in FDs : fdTable[f] = c THEN "open" ELSE "closed"

Kernel == [ft |-> fdTable, pr |-> peer, ur |-> unread, nc |-> nclose]

\* CloseSocket(value of entry e): close(2) on the descriptor number e.fd.  It
\* closes whatever connection that number refers to now; on a free number it
\* fails with EBADF, which the code ignores.
CloseFd(k, fd) ==
    [ft |-> [k.ft EXCEPT ![fd] = 0],
     pr |-> IF k.ft[fd] # 0 THEN [k.pr EXCEPT ![k.ft[fd]] = "gone"] ELSE k.pr,
     ur |-> IF k.ft[fd] # 0 THEN [k.ur EXCEPT ![k.ft[fd]] = 0] ELSE k.ur,
     nc |-> k.nc]

CloseSocket(k, e) == [CloseFd(k, e.fd) EXCEPT !.nc[e.seq] = @ + 1]

\* read(socket, &fakeBuffer, 1) of SocketConnected: what the call returns.
ReadResult(k, fd) ==
    IF k.ft[fd] = 0 THEN "EBADF"
    ELSE LET c == k.ft[fd] IN
         IF k.pr[c] = "reset" THEN "ECONNRESET"
         ELSE IF k.ur[c] > 0 THEN "data"
         ELSE IF k.pr[c] = "closed" THEN "eof"
         ELSE "EAGAIN"

\* The byte a successful read takes from the connection.
Consume(k, fd) == [k EXCEPT !.ur[k.ft[fd]] = @ - 1]

IsNonBlockingError(r) == r = "EAGAIN"

IsDisconnectError(r) == r = "EBADF"

\* A HandleSocketError that came back to its caller.
HandleSocketErrorReturns(r) == "return"

\* HandleSocketError: every branch of the switch, the default included, throws.
HandleSocketError(r) == "throw"

\* The variant of the check that takes a zero-length read for "connected".
SocketConnectedZeroIsAlive(r) ==
    IF r \in {"eof", "data"} THEN "true"
    ELSE IF IsNonBlockingError(r) THEN "true"
    ELSE IF IsDisconnectError(r) THEN "false"
    ELSE IF HandleSocketError(r) = "throw" THEN "throw" ELSE "false"

\* SocketConnected: "true", "false", or "throw" out of HandleSocketError.
SocketConnected(r) ==
    IF r = "eof" THEN "false"
    ELSE IF r = "data" THEN "true"
    ELSE IF IsNonBlockingError(r) THEN "true"
    ELSE IF IsDisconnectError(r) THEN "false"
    ELSE IF HandleSocketError(r) = "throw" THEN "throw" ELSE "false"

\* A push at the wrong end of the vector.
PushFront(p, e) == <<e>> \o p

\* ConnectionSockets.push_back(newConnection)
PushBack(p, e) == Append(p, e)

\* A capacity test that tolerates one entry too many.
OverflowOffByOne(p) == Len(p) > MAX_NUM_HEALTH_CONNECTIONS + 1

\* ConnectionSockets.size() > MAX_NUM_HEALTH_CONNECTIONS
Overflow(p) == Len(p) > MAX_NUM_HEALTH_CONNECTIONS

\* The entry whose value "oldConnection" yields when CloseSocket reads it:
\* oldConnection is a reference to slot 0 of the vector, and it is read after
\* erase(cbegin()) has moved the second entry into that slot.
OldConnectionAfterErase(p) == IF Len(p) >= 2 THEN p[2] ELSE p[1]

\* The prune loop of run(), from position i on: every entry is peeked; one
\* that is not connected is closed and erased, the rest keep their order.  A
\* throw out of SocketConnected leaves the loop (and run()) where it stands.
RECURSIVE PruneFrom(_, _, _, _, _)
PruneFrom(p, i, k, rm, ez) ==
    IF i > Len(p)
    THEN [pool |-> p, k |-> k, pruned |-> rm, eof |-> ez, thrown |-> FALSE]
    ELSE LET r  == ReadResult(k, p[i].fd)
             k1 == IF r = "data" THEN Consume(k, p[i].fd) ELSE k
             c  == SocketConnected(r)
         IN  IF c = "throw"
             THEN [pool |-> p, k |-> k1, pruned |-> rm, eof |-> ez,
                   thrown |-> TRUE]
             ELSE IF c = "false"
             THEN PruneFrom(Erase(p, i), i, CloseSocket(k1, p[i]),
                            rm \cup {p[i].seq},
                            IF r = "eof" THEN ez \cup {p[i].seq} ELSE ez)
             ELSE PruneFrom(p, i + 1, k1, rm, ez)

\* The close loop of Stop(), with the iterator at position i: the entry is
\* closed, erase() returns the position of the next entry, and the for
\* statement's ++connection then steps over that entry.  The loop ends when
\* the iterator equals cend(); an iterator that has stepped past cend() never
\* does (ub).
RECURSIVE StopLoop(_, _, _)
StopLoop(p, i, k) ==
    IF i = Len(p) + 1 THEN [pool |-> p, k |-> k, ub |-> FALSE]
    ELSE IF i > Len(p) + 1 THEN [pool |-> p, k |-> k, ub |-> TRUE]
    ELSE StopLoop(Erase(p, i), i + 1, CloseSocket(k, p[i]))

(***************************************************************************)
(* Initial state: the constructor is entered.  AcceptThread has been       *)
(* default-constructed (pSocket = nullptr, bRun = false), Init() has not   *)
(* bound the socket yet, nothing listens and the pool is empty.            *)
(***************************************************************************)
Init ==
    /\ MAX_NUM_HEALTH_CONNECTIONS \in 1..MaxCapacity
    /\ lstate = "Unbound"
    /\ listened = "no"
    /\ pSocket = "null"
    /\ bRun = FALSE
    /\ pcW = "notstarted"
    /\ pcF = "idle"
    /\ stops = 0
    /\ pool = <<>>
    /\ fdTable = [f \in FDs |-> 0]
    /\ peer = [c \in Conns |-> "none"]
    /\ unread = [c \in Conns |-> 0]
    /\ nclose = [c \in Conns |-> 0]
    /\ nAccepted = 0
    /\ errors = 0
    /\ tk = NoTick

\* The process runs until undefined behaviour in Stop() has brought it down.
Alive == pcF # "ub"

(***************************************************************************)
(* Facade thread                                                           *)
(***************************************************************************)
\* The constructor: Init() creates the socket, sets it non-blocking and binds.
Construct ==
    /\ Alive /\ lstate = "Unbound" /\ listened = "no"
    /\ lstate' = "Bound"
    /\ UNCHANGED <<MAX_NUM_HEALTH_CONNECTIONS, listened, pSocket, bRun, pcW,
                   pcF, stops, pool, fdTable, peer, unread, nclose, nAccepted,
                   errors, tk>>

\* Init(): SetNonBlocking or bind fails (r) and HandleSocketError throws out
\* of the constructor: there is no object to call Listen() or Stop() on.
ConstructFails ==
    /\ Alive /\ lstate = "Unbound" /\ listened = "no"
    /\ \E r \in {"fcntl", "EADDRINUSE"} :
        IF HandleSocketError(r) = "throw"
        THEN listened' = "failed" /\ lstate' = lstate
        ELSE listened' = listened /\ lstate' = "Bound"
    /\ UNCHANGED <<MAX_NUM_HEALTH_CONNECTIONS, pSocket, bRun, pcW, pcF, stops,
                   pool, fdTable, peer, unread, nclose, nAccepted, errors, tk>>

\* Listen(): listen() succeeds, SetSocket(this), AcceptThread.start().
Listen ==
    /\ Alive /\ pcF = "idle" /\ stops = 0 /\ listened = "no"
    /\ lstate = "Bound"
    /\ lstate' = "Listening"
    /\ listened' = "ok"
    /\ pSocket' = "this"
    /\ pcW' = "entry"
    /\ UNCHANGED <<MAX_NUM_HEALTH_CONNECTIONS, bRun, pcF, stops, pool, fdTable,
                   peer, unread, nclose, nAccepted, errors, tk>>

\* A failing Listen() that goes on to SetSocket(this) and start().
ListenFailsThenStarts ==
    /\ Alive /\ pcF = "idle" /\ stops = 0 /\ listened = "no"
    /\ lstate = "Bound"
    /\ listened' = "failed"
    /\ pSocket' = "this"
    /\ pcW' = "entry"
    /\ UNCHANGED <<MAX_NUM_HEALTH_CONNECTIONS, lstate, bRun, pcF, stops, pool,
                   fdTable, peer, unread, nclose, nAccepted, errors, tk>>

\* Listen(): listen() returns -1 and HandleSocketError throws to the caller,
\* before SetSocket and start().
ListenFails ==
    /\ Alive /\ pcF = "idle" /\ stops = 0 /\ listened = "no"
    /\ lstate = "Bound"
    /\ listened' = "failed"
    /\ IF HandleSocketError("listen") = "throw"
       THEN pSocket' = pSocket /\ pcW' = pcW
       ELSE pSocket' = "this" /\ pcW' = "entry"
    /\ UNCHANGED <<MAX_NUM_HEALTH_CONNECTIONS, lstate, bRun, pcF, stops, pool,
                   fdTable, peer, unread, nclose, nAccepted, errors, tk>>

\* Stop(), line 334, on a constructed object: bRun = false.
StopBegin ==
    /\ Alive /\ pcF = "idle" /\ stops < MaxStops
    /\ lstate # "Unbound"
    /\ bRun' = FALSE
    /\ pcF' = "close"
    /\ UNCHANGED <<MAX_NUM_HEALTH_CONNECTIONS, lstate, listened, pSocket, pcW,
                   stops, pool, fdTable, peer, unread, nclose, nAccepted,
                   errors, tk>>

\* Stop(), line 336: pSocket->Close() shuts the listening socket down.
StopClose ==
    /\ Alive /\ pcF = "close" /\ pSocket = "this"
    /\ lstate' = "Closed"
    /\ pcF' = "closeloop"
    /\ UNCHANGED <<MAX_NUM_HEALTH_CONNECTIONS, listened, pSocket, bRun, pcW,
                   stops, pool, fdTable, peer, unread, nclose, nAccepted,
                   errors, tk>>

\* Stop(), line 336 with pSocket == nullptr (SetSocket is only called by
\* Listen): Close() reads TcpSocket through a null pointer.
StopCloseNull ==
    /\ Alive /\ pcF = "close" /\ pSocket = "null"
    /\ pcF' = "ub"
    /\ UNCHANGED <<MAX_NUM_HEALTH_CONNECTIONS, lstate, listened, pSocket, bRun,
                   pcW, stops, pool, fdTable, peer, unread, nclose, nAccepted,
                   errors, tk>>

\* Stop(), lines 338-342: the close loop ends at cend().
StopCloseLoop ==
    /\ Alive /\ pcF = "closeloop"
    /\ LET r == StopLoop(pool, 1, Kernel) IN
        /\ ~r.ub
        /\ pool' = r.pool
        /\ fdTable' = r.k.ft /\ peer' = r.k.pr /\ unread' = r.k.ur
        /\ nclose' = r.k.nc
    /\ pcF' = "wait"
    /\ UNCHANGED <<MAX_NUM_HEALTH_CONNECTIONS, lstate, listened, pSocket, bRun,
                   pcW, stops, nAccepted, errors, tk>>

\* Stop(), lines 338-342: the iterator steps past cend().  What follows is
\* undefined: the loop goes on over whatever lies behind the vector's end (g: a
\* descriptor number read there and closed, 0 for none) until the process dies.
StopCloseLoopPastEnd ==
    /\ Alive /\ pcF = "closeloop"
    /\ LET r == StopLoop(pool, 1, Kernel) IN
        /\ r.ub
        /\ pool' = r.pool
        /\ \E g \in 0..NumFds :
            LET k == IF g = 0 THEN r.k ELSE CloseFd(r.k, g) IN
            fdTable' = k.ft /\ peer' = k.pr /\ unread' = k.ur /\ nclose' = k.nc
    /\ pcF' = "ub"
    /\ UNCHANGED <<MAX_NUM_HEALTH_CONNECTIONS, lstate, listened, pSocket, bRun,
                   pcW, stops, nAccepted, errors, tk>>

\* Stop() is at its close loop while run(), on the worker thread, is at its
\* prune loop or its capacity step over the same non-empty vector.
PoolRace == pcF = "closeloop" /\ pcW \in {"prune", "capacity"} /\ pool # <<>>

\* Stop(), lines 338-342, executed at the same time as lines 390-413 of run():
\* two threads erase from one std::vector without synchronisation.  Besides
\* the two orders in which the loops can follow each other, the outcome is
\* undefined: the process dies, possibly after a close of a descriptor number
\* read from a stale slot (g, 0 for none).
StopCloseLoopRaces ==
    /\ Alive /\ PoolRace
    /\ \E g \in 0..NumFds :
        LET k == IF g = 0 THEN Kernel ELSE CloseFd(Kernel, g) IN
        fdTable' = k.ft /\ peer' = k.pr /\ unread' = k.ur /\ nclose' = k.nc
    /\ pcF' = "ub"
    /\ UNCHANGED <<MAX_NUM_HEALTH_CONNECTIONS, lstate, listened, pSocket, bRun,
                   pcW, stops, pool, nAccepted, errors, tk>>

\* Stop(), line 344: wait(5000) returns, the thread finished or not.
StopWait ==
    /\ Alive /\ pcF = "wait"
    /\ pcF' = "idle"
    /\ stops' = stops + 1
    /\ UNCHANGED <<MAX_NUM_HEALTH_CONNECTIONS, lstate, listened, pSocket, bRun,
                   pcW, pool, fdTable, peer, unread, nclose, nAccepted, errors,
                   tk>>

(***************************************************************************)
(* Worker thread: CHealthCheckThread::run()                                *)
(***************************************************************************)
\* Line 354: bRun = true, whatever Stop() wrote before.
RunEntry ==
    /\ Alive /\ pcW = "entry"
    /\ bRun' = TRUE
    /\ pcW' = "loop"
    /\ UNCHANGED <<MAX_NUM_HEALTH_CONNECTIONS, lstate, listened, pSocket, pcF,
                   stops, pool, fdTable, peer, unread, nclose, nAccepted,
                   errors, tk>>

\* Line 356: pSocket != nullptr && bRun
LoopCond == pSocket # "null" /\ bRun

\* Line 356, condition true: a tick begins.
LoopEnter ==
    /\ Alive /\ pcW = "loop" /\ LoopCond
    /\ pcW' = "accept"
    /\ tk' = NoTick
    /\ UNCHANGED <<MAX_NUM_HEALTH_CONNECTIONS, lstate, listened, pSocket, bRun,
                   pcF, stops, pool, fdTable, peer, unread, nclose, nAccepted,
                   errors>>

\* Line 356, condition false: the loop is left.
LoopLeave ==
    /\ Alive /\ pcW = "loop" /\ ~LoopCond
    /\ pcW' = "exit"
    /\ UNCHANGED <<MAX_NUM_HEALTH_CONNECTIONS, lstate, listened, pSocket, bRun,
                   pcF, stops, pool, fdTable, peer, unread, nclose, nAccepted,
                   errors, tk>>

\* errno values of a failed accept(): nothing pending, or an error; on a socket
\* Close() has shut down, accept() can only fail.
AcceptErrnos == IF lstate = "Listening" THEN {"EAGAIN", "ECONNABORTED"} ELSE {"EINVAL"}

\* Lines 361-379, accept() returned -1 with a non-blocking error: go on.
AcceptWouldBlock ==
    /\ Alive /\ pcW = "accept"
    /\ \E r \in AcceptErrnos : IsNonBlockingError(r)
    /\ pcW' = "prune"
    /\ tk' = [tk EXCEPT !.res = "wouldblock", !.done = 1]
    /\ UNCHANGED <<MAX_NUM_HEALTH_CONNECTIONS, lstate, listened, pSocket, bRun,
                   pcF, stops, pool, fdTable, peer, unread, nclose, nAccepted,
                   errors>>

\* Lines 373-378, accept() returned -1 with any other error: bRun = false,
\* HandleSocketError(error); break.
AcceptFatal ==
    /\ Alive /\ pcW = "accept"
    /\ \E r \in AcceptErrnos :
        /\ ~IsNonBlockingError(r)
        /\ bRun' = FALSE
        /\ IF HandleSocketError(r) = "throw"
           THEN pcW' = "thrown" /\ errors' = errors + 1
           ELSE pcW' = "exit" /\ errors' = errors
    /\ tk' = [tk EXCEPT !.res = "fatal"]
    /\ UNCHANGED <<MAX_NUM_HEALTH_CONNECTIONS, lstate, listened, pSocket, pcF,
                   stops, pool, fdTable, peer, unread, nclose, nAccepted>>

\* Lines 361, 380-388: accept() returns a new connection on a free descriptor,
\* SetNonBlocking succeeds, push_back.
AcceptSuccess ==
    /\ Alive /\ pcW = "accept" /\ lstate = "Listening" /\ nAccepted < MaxConns
    /\ \E f \in FDs : fdTable[f] = 0
    /\ LET f == LowestFree(fdTable) IN
        /\ fdTable' = [fdTable EXCEPT ![f] = nAccepted + 1]
        /\ pool' = PushBack(pool, [fd |-> f, seq |-> nAccepted + 1])
    /\ nAccepted' = nAccepted + 1
    /\ peer' = [peer EXCEPT ![nAccepted + 1] = "open"]
    /\ pcW' = "prune"
    /\ tk' = [tk EXCEPT !.res = "ok", !.new = nAccepted + 1, !.done = 1,
                        !.full = (Len(pool) = MAX_NUM_HEALTH_CONNECTIONS)]
    /\ UNCHANGED <<MAX_NUM_HEALTH_CONNECTIONS, lstate, listened, pSocket, bRun,
                   pcF, stops, unread, nclose, errors>>

\* Lines 361, 382-385: accept() returns a new connection, SetNonBlocking fails
\* and HandleSocketError throws before push_back.
AcceptSetNonBlockingFails ==
    /\ Alive /\ pcW = "accept" /\ lstate = "Listening" /\ nAccepted < MaxConns
    /\ \E f \in FDs : fdTable[f] = 0
    /\ LET f == LowestFree(fdTable) IN
        /\ fdTable' = [fdTable EXCEPT ![f] = nAccepted + 1]
        /\ IF HandleSocketError("fcntl") = "throw"
           THEN pool' = pool /\ pcW' = "thrown" /\ errors' = errors + 1
           ELSE /\ pool' = PushBack(pool, [fd |-> f, seq |-> nAccepted + 1])
                /\ pcW' = "prune" /\ errors' = errors
    /\ nAccepted' = nAccepted + 1
    /\ peer' = [peer EXCEPT ![nAccepted + 1] = "open"]
    /\ tk' = [tk EXCEPT !.res = "nbfail", !.new = nAccepted + 1]
    /\ UNCHANGED <<MAX_NUM_HEALTH_CONNECTIONS, lstate, listened, pSocket, bRun,
                   pcF, stops, unread, nclose>>

\* Lines 390-400: the prune loop runs to the end of the vector.
Prune ==
    /\ Alive /\ pcW = "prune"
    /\ LET r == PruneFrom(pool, 1, Kernel, {}, {}) IN
        /\ ~r.thrown
        /\ pool' = r.pool
        /\ fdTable' = r.k.ft /\ peer' = r.k.pr /\ unread' = r.k.ur
        /\ nclose' = r.k.nc
        /\ tk' = [tk EXCEPT !.pruned = r.pruned, !.eof = r.eof, !.done = 2]
    /\ pcW' = "capacity"
    /\ UNCHANGED <<MAX_NUM_HEALTH_CONNECTIONS, lstate, listened, pSocket, bRun,
                   pcF, stops, nAccepted, errors>>

\* Lines 390-400: a peek fails with an error that is neither non-blocking nor a
\* disconnect, HandleSocketError throws out of the loop and out of run().
PruneThrows ==
    /\ Alive /\ pcW = "prune"
    /\ LET r == PruneFrom(pool, 1, Kernel, {}, {}) IN
        /\ r.thrown
        /\ pool' = r.pool
        /\ fdTable' = r.k.ft /\ peer' = r.k.pr /\ unread' = r.k.ur
        /\ nclose' = r.k.nc
        /\ tk' = [tk EXCEPT !.pruned = r.pruned, !.eof = r.eof]
    /\ pcW' = "thrown"
    /\ errors' = errors + 1
    /\ UNCHANGED <<MAX_NUM_HEALTH_CONNECTIONS, lstate, listened, pSocket, bRun,
                   pcF, stops, nAccepted>>

\* Lines 404-413: the pool is over capacity; erase(cbegin()) removes the front
\* entry and CloseSocket(oldConnection) closes what slot 0 holds afterwards.
CapacityEvict ==
    /\ Alive /\ pcW = "capacity" /\ Overflow(pool)
    /\ pool' = Erase(pool, 1)
    /\ LET k == CloseSocket(Kernel, OldConnectionAfterErase(pool)) IN
        fdTable' = k.ft /\ peer' = k.pr /\ unread' = k.ur /\ nclose' = k.nc
    /\ tk' = [tk EXCEPT !.rem = pool[1].seq,
                        !.cls = OldConnectionAfterErase(pool).seq, !.done = 3]
    /\ pcW' = "sleep"
    /\ UNCHANGED <<MAX_NUM_HEALTH_CONNECTIONS, lstate, listened, pSocket, bRun,
                   pcF, stops, nAccepted, errors>>

\* Line 404: the pool is within capacity.
CapacityOk ==
    /\ Alive /\ pcW = "capacity" /\ ~Overflow(pool)
    /\ tk' = [tk EXCEPT !.done = 3]
    /\ pcW' = "sleep"
    /\ UNCHANGED <<MAX_NUM_HEALTH_CONNECTIONS, lstate, listened, pSocket, bRun,
                   pcF, stops, pool, fdTable, peer, unread, nclose, nAccepted,
                   errors>>

\* Line 417: msleep(5), the end of the tick.
Sleep ==
    /\ Alive /\ pcW = "sleep"
    /\ pcW' = "loop"
    /\ UNCHANGED <<MAX_NUM_HEALTH_CONNECTIONS, lstate, listened, pSocket, bRun,
                   pcF, stops, pool, fdTable, peer, unread, nclose, nAccepted,
                   errors, tk>>

\* Line 420: bRun = false, run() returns.
RunExit ==
    /\ Alive /\ pcW = "exit"
    /\ bRun' = FALSE
    /\ pcW' = "done"
    /\ UNCHANGED <<MAX_NUM_HEALTH_CONNECTIONS, lstate, listened, pSocket, pcF,
                   stops, pool, fdTable, peer, unread, nclose, nAccepted,
                   errors, tk>>

(***************************************************************************)
(* Peers.  What a peer does shows to the program only through the peeks of *)
(* the prune loop, so a peer is followed while run() is executing and a    *)
(* pool entry's descriptor refers to its connection.                       *)
(***************************************************************************)
Peeking == pcW \notin {"notstarted", "done", "thrown"}

Peeked(c) == \E i \in DOMAIN pool : fdTable[pool[i].fd] = c

\* The peer of c closes its end: reads on c return 0 once its data is read.
PeerClose(c) ==
    /\ Alive /\ Peeking /\ Peeked(c) /\ peer[c] = "open"
    /\ peer' = [peer EXCEPT ![c] = "closed"]
    /\ UNCHANGED <<MAX_NUM_HEALTH_CONNECTIONS, lstate, listened, pSocket, bRun,
                   pcW, pcF, stops, pool, fdTable, unread, nclose, nAccepted,
                   errors, tk>>

\* The peer of c resets the connection: what it had sent is discarded and
\* reads on c fail with ECONNRESET.
PeerReset(c) ==
    /\ Alive /\ Peeking /\ Peeked(c) /\ peer[c] = "open"
    /\ peer' = [peer EXCEPT ![c] = "reset"]
    /\ unread' = [unread EXCEPT ![c] = 0]
    /\ UNCHANGED <<MAX_NUM_HEALTH_CONNECTIONS, lstate, listened, pSocket, bRun,
                   pcW, pcF, stops, pool, fdTable, nclose, nAccepted,
                   errors, tk>>

\* The peer of c sends a byte.
PeerSend(c) ==
    /\ Alive /\ Peeking /\ Peeked(c) /\ peer[c] = "open" /\ unread[c] < MaxUnread
    /\ unread' = [unread EXCEPT ![c] = @ + 1]
    /\ UNCHANGED <<MAX_NUM_HEALTH_CONNECTIONS, lstate, listened, pSocket, bRun,
                   pcW, pcF, stops, pool, fdTable, peer, nclose, nAccepted,
                   errors, tk>>

Facade ==
    \/ Construct
    \/ ConstructFails
    \/ Listen
    \/ ListenFails
    \/ StopBegin
    \/ StopClose
    \/ StopCloseNull
    \/ StopCloseLoop
    \/ StopCloseLoopPastEnd
    \/ StopCloseLoopRaces
    \/ StopWait

Worker ==
    \/ RunEntry
    \/ LoopEnter
    \/ LoopLeave
    \/ AcceptWouldBlock
    \/ AcceptFatal
    \/ AcceptSuccess
    \/ AcceptSetNonBlockingFails
    \/ Prune
    \/ PruneThrows
    \/ CapacityEvict
    \/ CapacityOk
    \/ Sleep
    \/ RunExit

Peers == \E c \in Conns : PeerClose(c) \/ PeerReset(c) \/ PeerSend(c)

Next == Facade \/ Worker \/ Peers

Spec == Init /\ [][Next]_vars

(***************************************************************************)
(* Properties                                                              *)
(***************************************************************************)
\* The worker is at the end of a tick: accept, prune and the capacity step
\* have run and msleep is next.
TickEnd == pcW = "sleep"

\* run() has been left, by return or by a thrown CGenErr.
WorkerLeft == pcW \in {"done", "thrown"}

\* Stop() has been called (and the worker had been launched before).
StopCalledAfterLaunch == listened = "ok" /\ (pcF # "idle" \/ stops > 0)

\* C1: at the end of every tick the pool holds at most
\* MAX_NUM_HEALTH_CONNECTIONS handles.
C1_PoolWithinCapacity == TickEnd => Len(pool) <= MAX_NUM_HEALTH_CONNECTIONS

\* C1 witness: a tick whose capacity step had to evict ends with a full pool.
C1_Witness ==
    TickEnd /\ tk.rem # 0 /\ Len(pool) = MAX_NUM_HEALTH_CONNECTIONS

\* C2 (as claimed): when the capacity step evicts, the entry it removes is the
\* oldest member, and that entry is the one handed to CloseSocket, so the
\* removed connection is closed afterwards.
C2_EvictsAndClosesOldest ==
    (TickEnd /\ tk.rem # 0) =>
        /\ \A s \in Seqs(pool) : tk.rem < s
        /\ tk.cls = tk.rem
        /\ Local(tk.rem) = "closed"

\* C3: the pool is ordered by arrival, the earlier accepted entry nearer the
\* front.
C3_PoolInArrivalOrder ==
    \A i, j \in DOMAIN pool : i < j => pool[i].seq < pool[j].seq

\* C3 witness: the prune step took an entry from between two that stayed.
C3_Witness ==
    /\ Len(pool) >= 2
    /\ \E s \in tk.pruned : pool[1].seq < s /\ s < pool[2].seq

C5_NewcomerKeepsItsPlace ==
    (TickEnd /\ tk.res = "ok" /\ tk.full /\ peer[tk.new] = "open"
             /\ pcF = "idle" /\ stops = 0) =>
        /\ pool # <<>>
        /\ pool[Len(pool)].seq = tk.new
        /\ Local(tk.new) = "open"
        /\ tk.rem # 0 => tk.cls = tk.rem

\* C6 (as claimed): when the close loop of Stop() has finished, the pool is
\* empty and no connection that was pushed into it is still open.
C6_StopClosesAll ==
    pcF = "wait" =>
        /\ pool = <<>>
        /\ \A c \in Conns : (tk.res = "nbfail" /\ tk.new = c) \/ Local(c) # "open"

\* C7 (as claimed): once Stop() has returned, the pool is empty and the
\* listening socket closed, and a further call finds nothing to close, fails
\* nowhere and leaves that state as it is.
C7_StopIdempotent ==
    stops >= 1 => (pool = <<>> /\ lstate = "Closed" /\ pcF # "ub")

\* C8 (as claimed): Stop() on a facade whose Listen() never started the worker
\* runs without dereferencing the unset pSocket.
C8_StopWithoutListen == listened # "ok" => pcF # "ub"

\* C9 (as claimed, in the form a finite run refutes): once Stop() has been
\* called on a launched worker, the worker has left run() or the program can
\* still take a step towards it.
C9_StopReachesStopped ==
    StopCalledAfterLaunch => (WorkerLeft \/ ENABLED (Worker \/ Facade))

C11_StartupFailureKeepsWorkerOff ==
    listened = "failed" => (pcW = "notstarted" /\ pSocket = "null" /\ ~bRun)

\* C11 witness: listen() failed on the bound socket, and the caller has gone
\* on to destroy the facade.
C11_Witness == listened = "failed" /\ lstate = "Bound" /\ pcF = "close"

\* C12 (as claimed): a prune step in which a peek fails with an error that is
\* neither a non-blocking nor a disconnect error closes and removes the handle
\* concerned and runs to its end, the worker going on to the capacity step.
C12_PeekFailureIsolated ==
    [][(pcW = "prune" /\ pcW' # "prune") =>
        /\ pcW' = "capacity"
        /\ errors' = errors
        /\ \A i \in DOMAIN pool :
              ReadResult(Kernel, pool[i].fd) = "ECONNRESET" =>
                  /\ pool[i].seq \notin Seqs(pool')
                  /\ fdTable'[pool[i].fd] = 0]_vars

\* C13 (as claimed): the pool is changed by steps of the worker only, and
\* Stop() is never at its close loop over a non-empty pool while the worker is
\* at its prune or capacity step.
C13_WorkerOwnsPool ==
    [][(pool' # pool => pcF' = pcF) /\ ~PoolRace]_vars

\* C14 (as claimed): once Stop() has been called on a launched worker, bRun is
\* never set from false back to true.
C14_StopRequestNotLost ==
    [][StopCalledAfterLaunch => (bRun' => bRun)]_vars

\* C15 (as claimed): the listening socket never leaves Closed, and it is
\* Closed as soon as the worker has met a fatal accept error.
C15_ListenerClosedOnFatal ==
    [][/\ (lstate = "Closed" => lstate' = "Closed")
       /\ (tk'.res = "fatal" => lstate' = "Closed")]_vars

\* Connection c is open on the local side in the given descriptor table.
OpenIn(ft, c) == \E f \in FDs : ft[f] = c

\* C16 (as claimed): a step of run() closes a connection only if its peer has
\* closed or failed, or if it is the front entry of a pool that is over
\* capacity at the capacity step.
C16_ClosedOnlyForCause ==
    [][\A c \in Conns :
        (pcF' = pcF /\ OpenIn(fdTable, c) /\ ~OpenIn(fdTable', c)) =>
            \/ peer[c] # "open"
            \/ pcW = "capacity" /\ Overflow(pool) /\ pool[1].seq = c]_vars

\* C17 (as claimed): a prune step leaves the unread bytes of every pooled
\* connection that stays open as they were.
C17_PeekKeepsData ==
    [][(pcW = "prune" /\ pcW' # "prune") =>
        \A c \in Conns :
            (Peeked(c) /\ unread[c] >= 1 /\ OpenIn(fdTable', c)) =>
                unread'[c] = unread[c]]_vars

\* C18 (as claimed): at the end of a tick no pool entry is a handle that
\* CloseSocket has already been applied to.
C18_PoolHoldsLiveHandles ==
    TickEnd => \A i \in DOMAIN pool : nclose[pool[i].seq] = 0

\* C19 (as claimed): CloseSocket is applied at most once to the handle of
\* every accepted connection.
C19_NoDoubleClose == \A c \in Conns : nclose[c] <= 1

\* C20 (as claimed): at the end of a tick, and when Stop() has returned and
\* run() has been left, every connection accept() returned is a member of the
\* pool or closed.
C20_NoHandleLeaks ==
    (TickEnd \/ (stops >= 1 /\ pcF = "idle" /\ WorkerLeft)) =>
        \A c \in 1..nAccepted : c \in Seqs(pool) \/ Local(c) = "closed"

====
